---- MODULE Spec2Model ----
(***************************************************************************)
(* Action tracking subsystem of dynamodb-mcp-server.                       *)
(*                                                                         *)
(* ActionTracker (src/src/action-tracker.ts) keeps a Neo4j driver handle   *)
(* and an `enabled` flag; every public method is an async function whose   *)
(* awaits are the points where other calls and the store interleave.       *)
(* The host (src/src/index.ts) builds one tracker from the environment,    *)
(* awaits connect() in runServer() and then serves tool calls, recording   *)
(* each tracked call through recordAction().                               *)
(*                                                                         *)
(* The specifications share the tracker and store actions:                 *)
(*   Spec       a client drives the tracker API directly, in any order;    *)
(*   HostSpec   the host process: startup followed by tool calls;          *)
(*   QuerySpec  a caller records a history, then asks one query;           *)
(*   TableSpec  the host's queryTable and scanTable (src/unnamed/part_002).*)
(***************************************************************************)
EXTENDS Integers, Sequences, FiniteSets, TLC

\* ---------------------------------------------------------------- bounds
\* number of tracker calls (Spec) / tool calls (HostSpec) in one behaviour
MaxCalls == 2
\* number of calls that may be in flight (between two awaits) at once
MaxInFlight == 2
\* last value of the wall clock
MaxTime == 1

\* ------------------------------------------------------------- constants
\* number of statements initializeSchema runs
SchemaStatements == 5

\* slot of the connect() call that runServer makes
HostConnect == 0

\* `limit = 5` of findSimilarActions
DefaultLimit == 5

\* `timeDiff.minutes < 30` of suggestNextAction
WindowMinutes == 30

\* `LIMIT 3` of suggestNextAction
SuggestLimit == 3

Calls == 0 .. MaxCalls
ClientCalls == 1 .. MaxCalls

\* a string the environment or a caller did not supply (undefined): falsy
Absent == ""

\* `a || b` on strings
OrDefault(a, b) == IF a # Absent THEN a ELSE b

\* `LIMIT 5` of getActionRecommendations
RecommendLimit == 5

\* ------------------------------------------------------------ JSON texts
\* A structured payload is a sequence of tokens; its JSON text wraps the
\* tokens in braces.  A text that is not so wrapped does not parse.
JSONStringify(v) == <<"{">> \o v \o <<"}">>

JSONParses(s) == /\ Len(s) >= 2
                 /\ s[1] = "{"
                 /\ s[Len(s)] = "}"

JSONParse(s) == SubSeq(s, 2, Len(s) - 1)

\* -------------------------------------------------------------- inputs
\* arguments of recordAction that the client of Spec passes
RecordInputs ==
  { [userId |-> "u1", userName |-> "Alice", mcpId |-> "m1",
     mcpType |-> "DynamoDB", mcpName |-> "AWS DynamoDB",
     actionType |-> "data_operation", actionName |-> "query_table",
     parameters |-> <<"t1">>, result |-> <<"ok">>, status |-> "success", limit |-> <<>>,
   context |-> Absent],
    [userId |-> "u1", userName |-> "Bob", mcpId |-> "m1",
     mcpType |-> "Cognito", mcpName |-> "AWS Cognito",
     actionType |-> "user_lookup", actionName |-> "find_user_by_email",
     parameters |-> <<"e1">>, result |-> <<"err">>, status |-> "failure", limit |-> <<>>,
   context |-> Absent] }

\* arguments of the query methods that the client of Spec passes
QueryInputs ==
  { [userId |-> "u1", userName |-> Absent, mcpId |-> Absent,
     mcpType |-> "DynamoDB", mcpName |-> Absent,
     actionType |-> "data_operation", actionName |-> Absent,
     parameters |-> <<"t1">>, result |-> <<>>, status |-> Absent,
     limit |-> <<>>,
   context |-> Absent] }

NoInput ==
  [userId |-> Absent, userName |-> Absent, mcpId |-> Absent,
   mcpType |-> Absent, mcpName |-> Absent,
   actionType |-> Absent, actionName |-> Absent,
   parameters |-> <<>>, result |-> <<>>, status |-> Absent, limit |-> <<>>,
   context |-> Absent]

\* the methods that open a session and run one statement
QueryOps == {"getRelatedActions", "findSimilarActions", "getUserActionHistory",
             "suggestNextAction", "getActionRecommendations"}

DbOps == QueryOps \cup {"recordAction"}

\* ---------------------------------------------------------------- state
VARIABLES
  ctor,         \* the (uri, username, password) the tracker was built with
  enabled,      \* ActionTracker.enabled
  driver,       \* ActionTracker.driver: "null" or "driver"
  driverState,  \* the driver's connection pool: "none", "open", "closed"
  storeAccess,  \* number of accesses to the store made so far
  users,        \* store: User nodes, id -> [name, createdAt]
  mcps,         \* store: MCP (backend) nodes, id -> [type, name, createdAt]
  actions,      \* store: Action nodes
  performed,    \* store: PERFORMED edges <<userId, actionId>>
  used,         \* store: USED edges <<actionId, mcpId>>
  schema,       \* store: schema statements applied
  writeLog,     \* ids of the Actions in the order the store wrote them
  now,          \* the wall clock
  uuidCount,    \* number of uuidv4() values handed out
  calls,        \* the tracker calls, by slot
  env,          \* names of the NEO4J_* variables the environment sets
  hostPc,       \* runServer's position
  reqs,         \* the host's tool calls, by slot
  workload,     \* what a scripted caller has still to do
  dynamo        \* the host's DynamoDB client and its table call

trackerVars == <<enabled, driver, driverState, storeAccess>>
storeVars == <<users, mcps, actions, performed, used, schema, writeLog>>
hostVars == <<env, hostPc, reqs, workload, dynamo>>
vars == <<ctor, enabled, driver, driverState, storeAccess, users, mcps,
          actions, performed, used, schema, writeLog, now, uuidCount, calls,
          env, hostPc, reqs, workload, dynamo>>

NoResult == [kind |-> "none", success |-> FALSE, actionId |-> 0, data |-> <<>>]

IdleCall ==
  [op |-> "none", pc |-> "idle", arg |-> NoInput, session |-> "none",
   sessionId |-> 0, actionId |-> 0, timestamp |-> 0, stmt |-> 0, failed |-> FALSE,
   rows |-> <<>>, result |-> NoResult, accessed |-> FALSE,
   invokedEnabled |-> FALSE]

\* what a table function returned: message is the text in pieces
NoReturn == [success |-> FALSE, message |-> << >>]

\* the host's DynamoDB client ("null" when it was never built) and the one
\* queryTable/scanTable call it is serving
IdleTable(client) ==
  [client |-> client, fn |-> "", pc |-> "idle",
   params |-> [tableName |-> Absent, keyConditionExpression |-> Absent,
               expressionAttributeValues |-> << >>],
   sent |-> FALSE, result |-> NoReturn]

NoReq ==
  [pc |-> "none", tool |-> "none", userId |-> Absent, userName |-> Absent,
   business |-> "none", response |-> "none", isError |-> FALSE]

InFlight == {c \in Calls : calls[c].pc \notin {"idle", "done"}}

\* ---------------------------------------------------------- constructor
\* a constructor that looks at the uri alone
ConstructorUriOnly(uri, username, password) ==
  LET ok == uri # Absent IN
  /\ ctor = <<uri, username, password>>
  /\ enabled = ok
  /\ driver = IF ok THEN "driver" ELSE "null"
  /\ driverState = IF ok THEN "open" ELSE "none"
  /\ storeAccess = IF ok THEN 1 ELSE 0

\* ActionTracker.constructor: enabled only when all three are truthy
Constructor(uri, username, password) ==
  LET ok == uri # Absent /\ username # Absent /\ password # Absent IN
  /\ ctor = <<uri, username, password>>
  /\ enabled = ok
  /\ driver = IF ok THEN "driver" ELSE "null"
  /\ driverState = IF ok THEN "open" ELSE "none"
  /\ storeAccess = IF ok THEN 1 ELSE 0

EmptyStore ==
  /\ users = << >>
  /\ mcps = << >>
  /\ actions = {}
  /\ performed = {}
  /\ used = {}
  /\ schema = {}
  /\ writeLog = << >>

Quiet ==
  /\ now = 0
  /\ uuidCount = 0
  /\ calls = [c \in Calls |-> IdleCall]
  /\ hostPc = "start"
  /\ reqs = [r \in ClientCalls |-> NoReq]
  /\ workload = << >>
  /\ dynamo = IdleTable("client")

\* Spec: a client builds the tracker with any arguments
Init ==
  /\ \E uri \in {Absent, "bolt://db"}, username \in {Absent, "neo4j"},
        password \in {Absent, "secret"} :
       Constructor(uri, username, password)
  /\ env = {}
  /\ EmptyStore
  /\ Quiet

\* the check `!this.enabled || !this.driver` that opens every method
Disabled == ~enabled \/ driver = "null"

\* the slot a new call takes: slots are used in order
Fresh(c) ==
  /\ calls[c].pc = "idle"
  /\ \A d \in ClientCalls : d < c => calls[d].pc # "idle"
  /\ Cardinality(InFlight) < MaxInFlight

\* ---------------------------------------------------------------- connect
\* a connect() that builds a new driver when the tracker has none
ConnectBeginReconnect(c) ==
  /\ calls' = [calls EXCEPT ![c] =
                 [@ EXCEPT !.op = "connect", !.pc = "verifying",
                           !.invokedEnabled = ~Disabled,
                           !.accessed = TRUE]]
  /\ enabled' = TRUE
  /\ driver' = "driver"
  /\ driverState' = "open"
  /\ storeAccess' = storeAccess + 1

\* connect(), up to `await this.driver.verifyConnectivity()`
ConnectBegin(c) ==
  IF Disabled
  THEN /\ calls' = [calls EXCEPT ![c] =
                      [@ EXCEPT !.op = "connect", !.pc = "done",
                                !.invokedEnabled = FALSE,
                                !.result = [NoResult EXCEPT !.kind = "returned"]]]
       /\ UNCHANGED trackerVars
  ELSE /\ calls' = [calls EXCEPT ![c] =
                      [@ EXCEPT !.op = "connect", !.pc = "verifying",
                                !.invokedEnabled = TRUE,
                                !.accessed = TRUE]]
       /\ storeAccess' = storeAccess + 1
       /\ UNCHANGED <<enabled, driver, driverState>>

\* a catch block that rethrows
ConnectRethrow(c, sess) ==
  /\ UNCHANGED <<enabled, driver>>
  /\ calls' = [calls EXCEPT ![c] =
                 [@ EXCEPT !.pc = "done", !.failed = TRUE, !.stmt = 0,
                           !.session = sess,
                           !.result = [NoResult EXCEPT !.kind = "raised"]]]

\* the catch block of connect(): disable, drop the driver, return normally
ConnectCatch(c, sess) ==
  /\ enabled' = FALSE
  /\ driver' = "null"
  /\ calls' = [calls EXCEPT ![c] =
                 [@ EXCEPT !.pc = "done", !.failed = TRUE, !.stmt = 0,
                           !.session = sess,
                           !.result = [NoResult EXCEPT !.kind = "returned"]]]

\* a driver that keeps one session and hands it to every caller
DriverSessionShared == IF driver = "driver" THEN 1 ELSE 0

\* driver.session(): a session object that no earlier call was given (every
\* call that takes one raises storeAccess)
DriverSession == storeAccess + 1

\* verifyConnectivity() settles; on success initializeSchema() starts: its
\* own guard, driver.session(), and the first session.run
ConnectVerified(c) ==
  /\ calls[c].op = "connect"
  /\ calls[c].pc = "verifying"
  /\ \E ok \in BOOLEAN :
       /\ ok => driverState = "open"
       /\ IF ~ok
          THEN /\ ConnectCatch(c, "none")
               /\ UNCHANGED <<driverState, storeAccess>>
          ELSE IF Disabled
          THEN /\ calls' = [calls EXCEPT ![c] =
                              [@ EXCEPT !.pc = "done",
                                        !.result = [NoResult EXCEPT !.kind = "returned"]]]
               /\ UNCHANGED trackerVars
          ELSE /\ calls' = [calls EXCEPT ![c] =
                              [@ EXCEPT !.pc = "schema", !.session = "open",
                                        !.sessionId = DriverSession,
                                        !.stmt = 1, !.accessed = TRUE]]
               /\ storeAccess' = storeAccess + 2
               /\ UNCHANGED <<enabled, driver, driverState>>
  /\ UNCHANGED <<ctor, storeVars, now, uuidCount, hostVars>>

\* what the k-th statement of initializeSchema asks the store to hold, each
\* one IF NOT EXISTS
SchemaItem(k) ==
  CASE k = 1 -> [kind |-> "constraint", label |-> "User", property |-> "id"]
    [] k = 2 -> [kind |-> "constraint", label |-> "Action", property |-> "id"]
    [] k = 3 -> [kind |-> "constraint", label |-> "MCP", property |-> "id"]
    [] k = 4 -> [kind |-> "index", label |-> "Action", property |-> "timestamp"]
    [] OTHER -> [kind |-> "index", label |-> "Action", property |-> "mcpType"]

\* the store settles schema statement calls[c].stmt; the next one is run, or
\* after the last one, or a failure, control reaches the finally block
SchemaStatement(c) ==
  /\ calls[c].pc = "schema"
  /\ \E ok \in BOOLEAN :
       /\ ok => driverState = "open"
       /\ schema' = IF ok THEN schema \cup {SchemaItem(calls[c].stmt)} ELSE schema
       /\ IF ok /\ calls[c].stmt < SchemaStatements
          THEN /\ calls' = [calls EXCEPT ![c] =
                              [@ EXCEPT !.stmt = @ + 1, !.accessed = TRUE]]
               /\ storeAccess' = storeAccess + 1
          ELSE /\ calls' = [calls EXCEPT ![c] =
                              [@ EXCEPT !.pc = "schemaClose", !.failed = ~ok]]
               /\ UNCHANGED storeAccess
  /\ UNCHANGED <<ctor, enabled, driver, driverState, users, mcps, actions,
                 performed, used, writeLog, now, uuidCount, hostVars>>

\* `finally { await session.close() }` of initializeSchema, then back in
\* connect(): a rejection of any of these awaits lands in connect's catch
SchemaClose(c) ==
  /\ calls[c].pc = "schemaClose"
  /\ \E closeOk \in BOOLEAN :
       IF calls[c].failed \/ ~closeOk
       THEN ConnectCatch(c, IF closeOk THEN "closed" ELSE "closeFailed")
       ELSE /\ calls' = [calls EXCEPT ![c] =
                           [@ EXCEPT !.pc = "done", !.session = "closed",
                                     !.stmt = 0,
                                     !.result = [NoResult EXCEPT !.kind = "returned"]]]
            /\ UNCHANGED <<enabled, driver>>
  /\ UNCHANGED <<ctor, driverState, storeAccess, storeVars, now, uuidCount,
                 hostVars>>

\* ------------------------------------------------------------------ close
\* close(): driver.close() only when enabled with a driver
CloseCall(c) ==
  /\ IF Disabled
     THEN /\ calls' = [calls EXCEPT ![c] =
                         [@ EXCEPT !.op = "close", !.pc = "done",
                                   !.invokedEnabled = FALSE,
                                   !.result = [NoResult EXCEPT !.kind = "returned"]]]
          /\ UNCHANGED <<driverState, storeAccess>>
     ELSE /\ calls' = [calls EXCEPT ![c] =
                         [@ EXCEPT !.op = "close", !.pc = "done",
                                   !.invokedEnabled = TRUE,
                                   !.accessed = TRUE,
                                   !.result = [NoResult EXCEPT !.kind = "returned"]]]
          /\ driverState' = "closed"
          /\ storeAccess' = storeAccess + 1
  /\ UNCHANGED <<enabled, driver>>

\* an id made from the clock reading
Uuidv4FromClock == now + 1

\* uuidv4(): a value no earlier call of uuidv4() returned
Uuidv4 == uuidCount + 1

\* ----------------------------------------------------------- recordAction
\* recordAction(), up to `await session.run(...)`: the guard, then
\* driver.session(), uuidv4(), new Date() and the statement sent
RecordActionBegin(c, in) ==
  /\ uuidCount' = uuidCount + 1
  /\ IF Disabled
     THEN /\ calls' = [calls EXCEPT ![c] =
                         [@ EXCEPT !.op = "recordAction", !.arg = in,
                                   !.pc = "done", !.invokedEnabled = FALSE,
                                   !.result = [kind |-> "disabled",
                                               success |-> TRUE,
                                               actionId |-> Uuidv4,
                                               data |-> <<>>]]]
          /\ UNCHANGED storeAccess
     ELSE /\ calls' = [calls EXCEPT ![c] =
                         [@ EXCEPT !.op = "recordAction", !.arg = in,
                                   !.pc = "running", !.invokedEnabled = TRUE,
                                   !.session = "open",
                                   !.sessionId = DriverSession,
                                   !.actionId = Uuidv4,
                                   !.timestamp = now,
                                   !.accessed = TRUE]]
          /\ storeAccess' = storeAccess + 2
  /\ UNCHANGED <<enabled, driver, driverState>>

\* the query methods, up to `await session.run(...)`
QueryBegin(c, op, in) ==
  /\ IF Disabled
     THEN /\ calls' = [calls EXCEPT ![c] =
                         [@ EXCEPT !.op = op, !.arg = in,
                                   !.pc = "done", !.invokedEnabled = FALSE,
                                   !.result = [kind |-> "disabled",
                                               success |-> FALSE,
                                               actionId |-> 0,
                                               data |-> <<>>]]]
          /\ UNCHANGED storeAccess
     ELSE /\ calls' = [calls EXCEPT ![c] =
                         [@ EXCEPT !.op = op, !.arg = in,
                                   !.pc = "running", !.invokedEnabled = TRUE,
                                   !.session = "open",
                                   !.sessionId = DriverSession,
                                   !.accessed = TRUE]]
          /\ storeAccess' = storeAccess + 2
  /\ UNCHANGED <<enabled, driver, driverState>>

\* an Action node stamped by the store when the statement is applied
ActionNodeStoreClock(call) ==
  [id |-> call.actionId,
   type |-> call.arg.actionType,
   name |-> call.arg.actionName,
   parameters |-> JSONStringify(call.arg.parameters),
   result |-> JSONStringify(call.arg.result),
   status |-> call.arg.status,
   timestamp |-> now]

\* the Action node that the statement of recordAction creates
ActionNode(call) ==
  [id |-> call.actionId,
   type |-> call.arg.actionType,
   name |-> call.arg.actionName,
   parameters |-> JSONStringify(call.arg.parameters),
   result |-> JSONStringify(call.arg.result),
   status |-> call.arg.status,
   timestamp |-> call.timestamp]

\* MERGE (user:User {id}) SET name, createdAt
MergeUserOverwrite(call) ==
  [u \in DOMAIN users \cup {call.arg.userId} |->
     IF u = call.arg.userId
     THEN [name |-> call.arg.userName, createdAt |-> call.timestamp]
     ELSE users[u]]

\* MERGE (user:User {id}) ON CREATE SET name, createdAt
MergeUser(call) ==
  IF call.arg.userId \in DOMAIN users
  THEN users
  ELSE users @@ (call.arg.userId :>
                   [name |-> call.arg.userName, createdAt |-> call.timestamp])

\* MERGE (mcp:MCP {id}) ON CREATE SET type, name, createdAt
MergeMcp(call) ==
  IF call.arg.mcpId \in DOMAIN mcps
  THEN mcps
  ELSE mcps @@ (call.arg.mcpId :>
                  [type |-> call.arg.mcpType, name |-> call.arg.mcpName,
                   createdAt |-> call.timestamp])

\* CREATE (user)-[:PERFORMED]->(action)
PerformedEdges(call) == performed \cup {<<call.arg.userId, call.actionId>>}

\* the statement without its USED edge
UsedEdgesMissing(call) == used

\* CREATE (action)-[:USED]->(mcp)
UsedEdges(call) == used \cup {<<call.actionId, call.arg.mcpId>>}

\* a statement that keeps one Action per (type, name): MERGE in place of CREATE
RecordWriteUpsert(call) ==
  /\ users' = MergeUser(call)
  /\ mcps' = MergeMcp(call)
  /\ actions' = {a \in actions : a.type # call.arg.actionType
                                  \/ a.name # call.arg.actionName}
                 \cup {ActionNode(call)}
  /\ performed' = PerformedEdges(call)
  /\ used' = UsedEdges(call)
  /\ writeLog' = Append(writeLog, call.actionId)

\* the one statement of recordAction, applied by the store in one transaction
RecordWrite(call) ==
  /\ users' = MergeUser(call)
  /\ mcps' = MergeMcp(call)
  /\ actions' = actions \cup {ActionNode(call)}
  /\ performed' = PerformedEdges(call)
  /\ used' = UsedEdges(call)
  /\ writeLog' = Append(writeLog, call.actionId)

\* ---------------------------------------------------- store: text scoring
Max(a, b) == IF a >= b THEN a ELSE b

Min(a, b) == IF a <= b THEN a ELSE b

\* the matching of Jaro: for each position of the shorter text in turn, the
\* first character of the longer text that is equal, lies within the window
\* and is not matched yet (0 when there is none)
RECURSIVE JaroMatches(_, _, _, _)
JaroMatches(short, long, mi, taken) ==
  IF mi > Len(short)
  THEN << >>
  ELSE LET range == Max(Len(long) \div 2 - 1, 0)
           cand == {x \in 1 .. Len(long) : /\ x >= mi - range
                                           /\ x <= mi + range
                                           /\ x \notin taken
                                           /\ long[x] = short[mi]}
           hit == IF cand = {} THEN 0
                  ELSE CHOOSE x \in cand : \A y \in cand : x <= y
       IN <<hit>> \o JaroMatches(short, long, mi + 1,
                                 IF hit = 0 THEN taken ELSE taken \cup {hit})

\* the characters of s at the positions in keep, from position i on
RECURSIVE Picked(_, _, _)
Picked(s, keep, i) ==
  IF i > Len(s)
  THEN << >>
  ELSE (IF i \in keep THEN <<s[i]>> ELSE << >>) \o Picked(s, keep, i + 1)

RECURSIVE CommonPrefix(_, _)
CommonPrefix(a, b) ==
  IF a = << >> \/ b = << >> \/ Head(a) # Head(b)
  THEN 0
  ELSE 1 + CommonPrefix(Tail(a), Tail(b))

\* apoc.text.jaroWinklerDistance(left, right) read, as the statements read
\* it, as the Jaro-Winkler score of the two texts (1 for equal texts); the
\* score is the exact fraction <<numerator, denominator>>
JaroWinklerDistance(left, right) ==
  LET short == IF Len(left) <= Len(right) THEN left ELSE right
      long == IF Len(left) <= Len(right) THEN right ELSE left
      hits == JaroMatches(short, long, 1, {})
      from == {i \in 1 .. Len(short) : hits[i] # 0}
      to == {hits[i] : i \in from}
      m == Cardinality(from)
      ms1 == Picked(short, from, 1)
      ms2 == Picked(long, to, 1)
      t == Cardinality({k \in 1 .. m : ms1[k] # ms2[k]}) \div 2
      a == Len(left)
      b == Len(right)
      num == m * m * b + m * m * a + (m - t) * a * b
      den == 3 * a * b * m
      prefix == Min(CommonPrefix(left, right), 4)
  IN IF m = 0 THEN <<0, 1>>
     ELSE IF 10 * num < 7 * den THEN <<num, den>>
     ELSE <<10 * num + prefix * (den - num), 10 * den>>

\* p > q, p = q on scores
ScoreAbove(p, q) == p[1] * q[2] > q[1] * p[2]

ScoreEqual(p, q) == p[1] * q[2] = q[1] * p[2]

\* `score > 0.7`
AboveThreshold(score) == ScoreAbove(score, <<7, 10>>)

\* ------------------------------------------- store: findSimilarActions
\* the MCP node m as a record of its properties
McpNode(m) == [id |-> m, type |-> mcps[m].type, name |-> mcps[m].name]

\* MATCH (action:Action)-[:USED]->(mcp:MCP)
\* WHERE mcp.type = $mcpType AND action.type = $actionType
\* ... YIELD similarity WHERE similarity > 0.7 RETURN action, mcp, similarity
SimilarCandidates(in) ==
  {[action |-> e[1], mcp |-> McpNode(e[2]),
    similarity |-> JaroWinklerDistance(JSONStringify(in.parameters),
                                       e[1].parameters)] :
     e \in {f \in actions \X (DOMAIN mcps) :
              /\ <<f[1].id, f[2]>> \in used
              /\ mcps[f[2]].type = in.mcpType
              /\ f[1].type = in.actionType
              /\ AboveThreshold(
                   JaroWinklerDistance(JSONStringify(in.parameters),
                                       f[1].parameters))}}

\* an ordering that breaks ties of the score by the older timestamp
SimilarBeforeOldestFirst(x, y) ==
  \/ ScoreAbove(x.similarity, y.similarity)
  \/ /\ ScoreEqual(x.similarity, y.similarity)
     /\ x.action.timestamp < y.action.timestamp

\* ORDER BY similarity DESC, action.timestamp DESC: x sorts before y
SimilarBefore(x, y) ==
  \/ ScoreAbove(x.similarity, y.similarity)
  \/ /\ ScoreEqual(x.similarity, y.similarity)
     /\ x.action.timestamp > y.action.timestamp

\* ORDER BY ... LIMIT n over the rows S: every sequence the store may return
\* (rows that the ordering does not tell apart come in any order)
RECURSIVE SimilarTop(_, _)
SimilarTop(S, n) ==
  IF S = {} \/ n <= 0
  THEN {<< >>}
  ELSE UNION {{<<x>> \o q : q \in SimilarTop(S \ {x}, n - 1)} :
                x \in {z \in S : \A y \in S : ~SimilarBefore(y, z)}}

\* the `limit` argument, 5 when the caller leaves it out
Limit(in) == IF in.limit = << >> THEN DefaultLimit ELSE in.limit[1]

\* -------------------------------------------- store: suggestNextAction
\* duration.between(datetime(from), datetime(to)).minutes, timestamps being
\* counted in minutes: the duration is split into whole days and a rest, and
\* `minutes` is the minutes of the rest
DurationMinutes(from, to) == (to - from) % (24 * 60)

\* the statement without its window on the elapsed time
SuccessionsNoWindow(in) ==
  {r \in actions \X (DOMAIN mcps) \X (DOMAIN users) \X actions :
     /\ r[1].type = in.actionType
     /\ <<r[1].id, r[2]>> \in used
     /\ mcps[r[2]].type = in.mcpType
     /\ AboveThreshold(JaroWinklerDistance(JSONStringify(in.parameters),
                                           r[1].parameters))
     /\ <<r[3], r[1].id>> \in performed
     /\ <<r[3], r[4].id>> \in performed
     /\ <<r[4].id, r[2]>> \in used
     /\ r[4].timestamp > r[1].timestamp}

\* the three MATCH clauses and the two WHERE clauses on times: the rows
\* <<currentAction, mcp, user, nextAction>>
Successions(in) ==
  {r \in actions \X (DOMAIN mcps) \X (DOMAIN users) \X actions :
     /\ r[1].type = in.actionType
     /\ <<r[1].id, r[2]>> \in used
     /\ mcps[r[2]].type = in.mcpType
     /\ AboveThreshold(JaroWinklerDistance(JSONStringify(in.parameters),
                                           r[1].parameters))
     /\ <<r[3], r[1].id>> \in performed
     /\ <<r[3], r[4].id>> \in performed
     /\ <<r[4].id, r[2]>> \in used
     /\ r[4].timestamp > r[1].timestamp
     /\ DurationMinutes(r[1].timestamp, r[4].timestamp) < WindowMinutes}

\* groups over the later Actions of the anchor's user on any backend node of
\* the asked type
SuggestionGroupsByType(in) ==
  LET rows == {r \in actions \X (DOMAIN mcps) \X (DOMAIN users) \X actions :
                 /\ r[1].type = in.actionType
                 /\ <<r[1].id, r[2]>> \in used
                 /\ mcps[r[2]].type = in.mcpType
                 /\ AboveThreshold(JaroWinklerDistance(
                                     JSONStringify(in.parameters),
                                     r[1].parameters))
                 /\ <<r[3], r[1].id>> \in performed
                 /\ <<r[3], r[4].id>> \in performed
                 /\ \E m \in DOMAIN mcps :
                      <<r[4].id, m>> \in used /\ mcps[m].type = in.mcpType
                 /\ r[4].timestamp > r[1].timestamp
                 /\ DurationMinutes(r[1].timestamp, r[4].timestamp)
                      < WindowMinutes}
  IN {[nextActionType |-> k[1], nextActionName |-> k[2],
       parametersList |-> {r[4].parameters :
                             r \in {q \in rows : <<q[4].type, q[4].name>> = k}},
       frequency |-> Cardinality({q \in rows : <<q[4].type, q[4].name>> = k})] :
        k \in {<<r[4].type, r[4].name>> : r \in rows}}

\* RETURN nextAction.type, nextAction.name, COLLECT(DISTINCT
\* nextAction.parameters), COUNT(nextAction): one row per (type, name)
SuggestionGroups(in) ==
  {[nextActionType |-> k[1], nextActionName |-> k[2],
    parametersList |-> {r[4].parameters :
                          r \in {q \in Successions(in) :
                                   <<q[4].type, q[4].name>> = k}},
    frequency |-> Cardinality({q \in Successions(in) :
                                 <<q[4].type, q[4].name>> = k})] :
     k \in {<<r[4].type, r[4].name>> : r \in Successions(in)}}

\* a store that returns n rows of S in any order
RECURSIVE SuggestTopUnordered(_, _)
SuggestTopUnordered(S, n) ==
  IF S = {} \/ n <= 0
  THEN {<< >>}
  ELSE UNION {{<<x>> \o q : q \in SuggestTopUnordered(S \ {x}, n - 1)} :
                x \in S}

\* ORDER BY frequency DESC LIMIT n over the rows S: every sequence the store
\* may return
RECURSIVE SuggestTop(_, _)
SuggestTop(S, n) ==
  IF S = {} \/ n <= 0
  THEN {<< >>}
  ELSE UNION {{<<x>> \o q : q \in SuggestTop(S \ {x}, n - 1)} :
                x \in {z \in S : \A y \in S : y.frequency <= z.frequency}}

\* --------------------------------------- store: getActionRecommendations
\* the full-text index that `db.index.fulltext.queryNodes("actionContext",
\* $context)` reads; no statement of the tracker creates it
ContextIndex ==
  [kind |-> "fulltext", label |-> "Action", property |-> "actionContext"]

\* the sets of Action nodes the index may yield for a context: what the
\* index covers and how it scores are not the tracker's, so any of them
ContextMatches(context) == SUBSET actions

\* a statement that filters the rows by the $userId it is given
RecommendationRowsOfUser(in, matched) ==
  {r \in matched \X (DOMAIN mcps) \X (DOMAIN users) :
     /\ <<r[1].id, r[2]>> \in used
     /\ <<r[3], r[1].id>> \in performed
     /\ r[3] = in.userId}

\* the two MATCH clauses over the nodes the index yielded: the rows
\* <<action, mcp, user>>; the parameters $userId and $context of `in` are
\* passed along and $userId is named nowhere in the statement
RecommendationRows(in, matched) ==
  {r \in matched \X (DOMAIN mcps) \X (DOMAIN users) :
     /\ <<r[1].id, r[2]>> \in used
     /\ <<r[3], r[1].id>> \in performed}

\* RETURN mcp.type, mcp.name, action.type, action.name, COLLECT(DISTINCT
\* action.parameters), COUNT(action): one row per distinct key
RecommendationGroups(in, matched) ==
  LET rows == RecommendationRows(in, matched)
      Key(r) == <<mcps[r[2]].type, mcps[r[2]].name, r[1].type, r[1].name>>
  IN {[mcpType |-> k[1], mcpName |-> k[2],
       actionType |-> k[3], actionName |-> k[4],
       parameterSamples |-> {r[1].parameters : r \in {q \in rows : Key(q) = k}},
       frequency |-> Cardinality({q \in rows : Key(q) = k})] :
        k \in {Key(r) : r \in rows}}

\* ------------------------------------------------- store: any statement
\* the statement of the call names something the store does not have: the
\* procedure call on an index that does not exist is an error
Rejects(call) ==
  call.op = "getActionRecommendations" /\ ContextIndex \notin schema

\* the record sequences the store may answer the statement of a call with;
\* the rows of getRelatedActions and getUserActionHistory are not modelled
Answers(call) ==
  CASE call.op = "findSimilarActions" ->
         SimilarTop(SimilarCandidates(call.arg), Limit(call.arg))
    [] call.op = "suggestNextAction" ->
         SuggestTop(SuggestionGroups(call.arg), SuggestLimit)
    [] call.op = "getActionRecommendations" ->
         UNION {SuggestTop(RecommendationGroups(call.arg, matched),
                           RecommendLimit) :
                  matched \in ContextMatches(call.arg.context)}
    [] OTHER -> {<< >>}

\* a store in which a rejected recordAction statement leaves its User behind
StoreRunPartial(c) ==
  /\ calls[c].pc = "running"
  /\ \E ok \in BOOLEAN :
       /\ ok => driverState = "open" /\ ~Rejects(calls[c])
       /\ \E rows \in (IF ok THEN Answers(calls[c]) ELSE {<< >>}) :
            calls' = [calls EXCEPT ![c] =
                        [@ EXCEPT !.pc = "ran", !.failed = ~ok, !.rows = rows]]
       /\ IF ok /\ calls[c].op = "recordAction"
          THEN RecordWrite(calls[c])
          ELSE IF calls[c].op = "recordAction"
          THEN /\ users' = MergeUser(calls[c])
               /\ UNCHANGED <<mcps, actions, performed, used, writeLog>>
          ELSE UNCHANGED <<users, mcps, actions, performed, used, writeLog>>
  /\ UNCHANGED <<ctor, trackerVars, schema, now, uuidCount, hostVars>>

\* the store settles the statement of call c: it is applied as a whole and
\* the promise resolves, or it is not applied and the promise rejects
StoreRun(c) ==
  /\ calls[c].pc = "running"
  /\ \E ok \in BOOLEAN :
       /\ ok => driverState = "open" /\ ~Rejects(calls[c])
       /\ \E rows \in (IF ok THEN Answers(calls[c]) ELSE {<< >>}) :
            calls' = [calls EXCEPT ![c] =
                        [@ EXCEPT !.pc = "ran", !.failed = ~ok, !.rows = rows]]
       /\ IF ok /\ calls[c].op = "recordAction"
          THEN RecordWrite(calls[c])
          ELSE UNCHANGED <<users, mcps, actions, performed, used, writeLog>>
  /\ UNCHANGED <<ctor, trackerVars, schema, now, uuidCount, hostVars>>

\* result.records.map(...) does not throw: every text it hands to JSON.parse
\* parses
RecordsParse(call) ==
  CASE call.op = "findSimilarActions" ->
         \A i \in DOMAIN call.rows :
           /\ JSONParses(call.rows[i].action.parameters)
           /\ JSONParses(call.rows[i].action.result)
    [] call.op = "suggestNextAction" ->
         \A i \in DOMAIN call.rows :
           \A param \in call.rows[i].parametersList : JSONParses(param)
    [] call.op = "getActionRecommendations" ->
         \A i \in DOMAIN call.rows :
           \A param \in call.rows[i].parameterSamples : JSONParses(param)
    [] OTHER -> TRUE

\* result.records.map(...): the records as the method returns them
MappedRecords(call) ==
  CASE call.op = "findSimilarActions" ->
         [i \in DOMAIN call.rows |->
            [action |-> [call.rows[i].action EXCEPT
                           !.parameters = JSONParse(@),
                           !.result = JSONParse(@)],
             mcp |-> call.rows[i].mcp,
             similarity |-> call.rows[i].similarity]]
    [] call.op = "suggestNextAction" ->
         [i \in DOMAIN call.rows |->
            [actionType |-> call.rows[i].nextActionType,
             actionName |-> call.rows[i].nextActionName,
             possibleParameters |->
               {JSONParse(param) : param \in call.rows[i].parametersList},
             frequency |-> call.rows[i].frequency]]
    [] call.op = "getActionRecommendations" ->
         [i \in DOMAIN call.rows |->
            [mcpType |-> call.rows[i].mcpType,
             mcpName |-> call.rows[i].mcpName,
             actionType |-> call.rows[i].actionType,
             actionName |-> call.rows[i].actionName,
             parameterSamples |->
               {JSONParse(param) : param \in call.rows[i].parameterSamples},
             frequency |-> call.rows[i].frequency]]
    [] OTHER -> << >>

\* the value a method returns after its statement settled: what the try
\* block returns, or what the catch block returns when the statement was
\* rejected or the mapping of the records threw
Outcome(call) ==
  IF call.failed \/ ~RecordsParse(call)
  THEN [kind |-> "failed", success |-> FALSE, actionId |-> 0, data |-> <<>>]
  ELSE IF call.op = "recordAction"
  THEN [kind |-> "recorded", success |-> TRUE, actionId |-> call.actionId,
        data |-> <<>>]
  ELSE [kind |-> "found", success |-> TRUE, actionId |-> 0,
        data |-> MappedRecords(call)]

\* the rest of the method: the return or the catch block, then
\* `finally { await session.close() }`, whose rejection the method raises
Finish(c) ==
  /\ calls[c].pc = "ran"
  /\ \E closeOk \in BOOLEAN :
       calls' = [calls EXCEPT ![c] =
                   [@ EXCEPT !.pc = "done",
                             !.session = IF closeOk THEN "closed" ELSE "closeFailed",
                             !.result = IF closeOk THEN Outcome(calls[c])
                                        ELSE [NoResult EXCEPT !.kind = "raised"]]]
  /\ UNCHANGED <<ctor, trackerVars, storeVars, now, uuidCount, hostVars>>

\* the wall clock advances
Tick ==
  /\ now < MaxTime
  /\ now' = now + 1
  /\ UNCHANGED <<ctor, trackerVars, storeVars, uuidCount, calls, hostVars>>

\* ----------------------------------------------------------- Spec: client
ClientConnect(c) ==
  /\ Fresh(c)
  /\ ConnectBegin(c)
  /\ UNCHANGED <<ctor, storeVars, now, uuidCount, hostVars>>

ClientClose(c) ==
  /\ Fresh(c)
  /\ CloseCall(c)
  /\ UNCHANGED <<ctor, storeVars, now, uuidCount, hostVars>>

ClientRecord(c) ==
  /\ Fresh(c)
  /\ \E in \in RecordInputs : RecordActionBegin(c, in)
  /\ UNCHANGED <<ctor, storeVars, now, hostVars>>

ClientQuery(c) ==
  /\ Fresh(c)
  /\ \E op \in QueryOps, in \in QueryInputs : QueryBegin(c, op, in)
  /\ UNCHANGED <<ctor, storeVars, now, uuidCount, hostVars>>

Next ==
  \/ \E c \in ClientCalls : ClientConnect(c)
  \/ \E c \in ClientCalls : ClientClose(c)
  \/ \E c \in ClientCalls : ClientRecord(c)
  \/ \E c \in ClientCalls : ClientQuery(c)
  \/ \E c \in Calls : ConnectVerified(c)
  \/ \E c \in Calls : SchemaStatement(c)
  \/ \E c \in Calls : SchemaClose(c)
  \/ \E c \in Calls : StoreRun(c)
  \/ \E c \in Calls : Finish(c)
  \/ Tick

Spec == Init /\ [][Next]_vars

\* ------------------------------------------------------------------ host
Neo4jVars == {"NEO4J_URI", "NEO4J_USERNAME", "NEO4J_PASSWORD"}

\* the environments the host is started in
EnvChoices == {{}, Neo4jVars}

\* process.env.NAME
ProcessEnv(e, name) == IF name \in e THEN "from-env" ELSE Absent

\* `new ActionTracker(process.env.NEO4J_URI || '...', ...)`
HostTracker(e) ==
  Constructor(OrDefault(ProcessEnv(e, "NEO4J_URI"),
                        "neo4j+s://2bb97179.databases.neo4j.io"),
              OrDefault(ProcessEnv(e, "NEO4J_USERNAME"), "neo4j"),
              OrDefault(ProcessEnv(e, "NEO4J_PASSWORD"), "built-in-password"))

HostInit ==
  /\ env \in EnvChoices
  /\ HostTracker(env)
  /\ EmptyStore
  /\ Quiet

\* the tools whose calls are recorded: tool -> actionType
TrackedTools ==
  [t \in {"create_table", "list_tables", "describe_table"} |-> "table_management"]
  @@ [t \in {"create_gsi", "update_gsi", "create_lsi"} |-> "index_management"]
  @@ [t \in {"update_item", "put_item", "get_item", "query_table", "scan_table"}
        |-> "data_operation"]
  @@ [t \in {"update_capacity"} |-> "capacity_management"]
  @@ [t \in {"get_assistant_by_id", "search_assistants_by_name",
             "upassistant_put_item"} |-> "assistant_management"]

\* the tools that query the tracker: tool -> method
TrackingTools ==
  [t \in {"get_similar_actions"} |-> "findSimilarActions"]
  @@ [t \in {"get_user_history"} |-> "getUserActionHistory"]
  @@ [t \in {"suggest_next_action"} |-> "suggestNextAction"]
  @@ [t \in {"get_action_recommendations"} |-> "getActionRecommendations"]

\* the tool names and arguments that the callers of HostSpec send
RequestTools == {"create_table", "get_user_history", "no_such_tool"}

RequestArgs == {[userId |-> Absent, userName |-> Absent],
                [userId |-> "u1", userName |-> "Alice"]}

\* validatedArgs as a payload: the arguments that were supplied
ArgTokens(req) == SelectSeq(<<req.userId, req.userName>>, LAMBDA x : x # Absent)

\* a handler that records every tracked call as a success
HostRecordInputAlwaysSuccess(req, business) ==
  [userId |-> OrDefault(req.userId, "anonymous"),
   userName |-> OrDefault(req.userName, "Anonymous User"),
   mcpId |-> "dynamodb-mcp-server",
   mcpType |-> "DynamoDB",
   mcpName |-> "AWS DynamoDB",
   actionType |-> TrackedTools[req.tool],
   actionName |-> req.tool,
   parameters |-> ArgTokens(req),
   result |-> <<business>>,
   status |-> "success",
   limit |-> <<>>,
   context |-> Absent]

\* the argument of recordAction in a tracked case of the handler
HostRecordInput(req, business) ==
  [userId |-> OrDefault(req.userId, "anonymous"),
   userName |-> OrDefault(req.userName, "Anonymous User"),
   mcpId |-> "dynamodb-mcp-server",
   mcpType |-> "DynamoDB",
   mcpName |-> "AWS DynamoDB",
   actionType |-> TrackedTools[req.tool],
   actionName |-> req.tool,
   parameters |-> ArgTokens(req),
   result |-> <<business>>,
   status |-> IF business = "ok" THEN "success" ELSE "failure",
   limit |-> <<>>,
   context |-> Absent]

\* the argument of a tracker query in a tracking case of the handler
HostQueryInput(req) ==
  [NoInput EXCEPT !.userId = req.userId, !.parameters = ArgTokens(req)]

\* runServer(), up to the first await inside connect()
RunServer ==
  /\ hostPc = "start"
  /\ hostPc' = "connecting"
  /\ ConnectBegin(HostConnect)
  /\ UNCHANGED <<ctor, storeVars, now, uuidCount, env, reqs, workload, dynamo>>

\* a runServer that attaches the transport without awaiting connect()
RunServerServesEarly ==
  /\ hostPc = "connecting"
  /\ hostPc' = "serving"
  /\ UNCHANGED <<ctor, trackerVars, storeVars, now, uuidCount, calls, env, reqs,
                 workload, dynamo>>

\* connect() settled: server.connect(transport), or process.exit(1) when
\* connect() raised
RunServerConnected ==
  /\ hostPc = "connecting"
  /\ calls[HostConnect].pc = "done"
  /\ hostPc' = IF calls[HostConnect].result.kind = "raised"
               THEN "exited" ELSE "serving"
  /\ UNCHANGED <<ctor, trackerVars, storeVars, now, uuidCount, calls, env, reqs,
                 workload, dynamo>>

\* a tool call arrives in slot r
Arrives(r) ==
  /\ hostPc = "serving"
  /\ reqs[r].pc = "none"
  /\ \A q \in ClientCalls : q < r => reqs[q].pc # "none"
  /\ Cardinality({q \in ClientCalls : reqs[q].pc \notin {"none", "responded"}})
       < MaxInFlight

\* the handler for a tracked tool, up to `await createTable(...)`
ToolCallTracked(r) ==
  /\ Arrives(r)
  /\ \E t \in RequestTools \cap DOMAIN TrackedTools, a \in RequestArgs :
       reqs' = [reqs EXCEPT ![r] =
                  [@ EXCEPT !.pc = "business", !.tool = t,
                            !.userId = a.userId, !.userName = a.userName]]
  /\ UNCHANGED <<ctor, trackerVars, storeVars, now, uuidCount, calls,
                 env, hostPc, workload, dynamo>>

\* the business operation settled with a result; the handler goes on to
\* `await actionTracker.recordAction({...}).catch(...)`
BusinessDone(r) ==
  /\ reqs[r].pc = "business"
  /\ \E b \in {"ok", "err"} :
       /\ reqs' = [reqs EXCEPT ![r] = [@ EXCEPT !.pc = "recording", !.business = b]]
       /\ RecordActionBegin(r, HostRecordInput(reqs[r], b))
  /\ UNCHANGED <<ctor, storeVars, now, env, hostPc, workload, dynamo>>

\* the handler for a tracking tool, up to the await of the tracker's method
ToolCallTracking(r) ==
  /\ Arrives(r)
  /\ \E t \in RequestTools \cap DOMAIN TrackingTools, a \in RequestArgs :
       LET req == [reqs[r] EXCEPT !.pc = "tracking", !.tool = t,
                                  !.userId = a.userId, !.userName = a.userName]
       IN /\ reqs' = [reqs EXCEPT ![r] = req]
          /\ QueryBegin(r, TrackingTools[t], HostQueryInput(req))
  /\ UNCHANGED <<ctor, storeVars, now, uuidCount, env, hostPc, workload,
                 dynamo>>

\* the default case of the handler
ToolCallUnknown(r) ==
  /\ Arrives(r)
  /\ \E t \in RequestTools \ (DOMAIN TrackedTools \cup DOMAIN TrackingTools),
        a \in RequestArgs :
       reqs' = [reqs EXCEPT ![r] =
                  [@ EXCEPT !.pc = "responded", !.tool = t,
                            !.userId = a.userId, !.userName = a.userName,
                            !.response = "Unknown tool", !.isError = TRUE]]
  /\ UNCHANGED <<ctor, trackerVars, storeVars, now, uuidCount, calls,
                 env, hostPc, workload, dynamo>>

\* a handler that reports an unrecorded action as an error of the tool call
RespondFailsOnRecordError(r) ==
  /\ reqs[r].pc \in {"recording", "tracking"}
  /\ calls[r].pc = "done"
  /\ reqs' = [reqs EXCEPT ![r] =
                IF calls[r].result.kind \in {"raised", "failed"}
                THEN [@ EXCEPT !.pc = "responded", !.response = "Error occurred",
                               !.isError = TRUE]
                ELSE IF reqs[r].pc = "recording"
                THEN [@ EXCEPT !.pc = "responded", !.response = reqs[r].business]
                ELSE [@ EXCEPT !.pc = "responded",
                               !.response = calls[r].result.kind]]
  /\ UNCHANGED <<ctor, trackerVars, storeVars, now, uuidCount, calls,
                 env, hostPc, workload, dynamo>>

\* the awaited tracker call settled: the handler returns its response.  A
\* recordAction that raised is absorbed by its .catch; a query that raised
\* lands in the handler's catch block.
Respond(r) ==
  /\ reqs[r].pc \in {"recording", "tracking"}
  /\ calls[r].pc = "done"
  /\ reqs' = [reqs EXCEPT ![r] =
                IF reqs[r].pc = "recording"
                THEN [@ EXCEPT !.pc = "responded", !.response = reqs[r].business]
                ELSE IF calls[r].result.kind = "raised"
                THEN [@ EXCEPT !.pc = "responded", !.response = "Error occurred",
                               !.isError = TRUE]
                ELSE [@ EXCEPT !.pc = "responded",
                               !.response = calls[r].result.kind]]
  /\ UNCHANGED <<ctor, trackerVars, storeVars, now, uuidCount, calls,
                 env, hostPc, workload, dynamo>>

HostNext ==
  \/ RunServer
  \/ RunServerConnected
  \/ \E r \in ClientCalls : ToolCallTracked(r)
  \/ \E r \in ClientCalls : BusinessDone(r)
  \/ \E r \in ClientCalls : ToolCallTracking(r)
  \/ \E r \in ClientCalls : ToolCallUnknown(r)
  \/ \E r \in ClientCalls : Respond(r)
  \/ \E c \in Calls : ConnectVerified(c)
  \/ \E c \in Calls : SchemaStatement(c)
  \/ \E c \in Calls : SchemaClose(c)
  \/ \E c \in Calls : StoreRun(c)
  \/ \E c \in Calls : Finish(c)
  \/ Tick

HostSpec == HostInit /\ [][HostNext]_vars

\* --------------------------------------- host: queryTable and scanTable
AwsVars == {"AWS_ACCESS_KEY_ID", "AWS_SECRET_ACCESS_KEY"}

\* module start: the client is built only when both credentials are set
DynamoClient(e) == IF AwsVars \subseteq e THEN "client" ELSE "null"

TableFns == {"queryTable", "scanTable"}

\* expressionAttributeValues is << >> when not given, else <<keys>>
TableParams ==
  [tableName : {Absent, "t1"},
   keyConditionExpression : {Absent, "pk = :v"},
   expressionAttributeValues : {<< >>, <<{}>>, <<{":v"}>>}]

\* `params.expressionAttributeValues &&
\*  Object.keys(params.expressionAttributeValues).length === 0`
EmptyValues(p) ==
  /\ p.expressionAttributeValues # << >>
  /\ Cardinality(p.expressionAttributeValues[1]) = 0

Refused(text) == [success |-> FALSE, message |-> text]

\* the returns of queryTable that come before the request is built and
\* sent, in the order of the code; NoReturn when none of them is taken
QueryTableChecks(p, client) ==
  CASE p.tableName = Absent -> Refused(<<"tableName is required">>)
    [] p.keyConditionExpression = Absent ->
         Refused(<<"keyConditionExpression is required">>)
    [] EmptyValues(p) ->
         Refused(<<"ValidationException: ",
                   "ExpressionAttributeValues must not be empty">>)
    [] client = "null" ->
         Refused(<<"AWS DynamoDB client not initialized. ",
                   "Please provide AWS credentials.">>)
    [] p.expressionAttributeValues = << >> ->
         Refused(<<"expressionAttributeValues is required",
                   " for query operations">>)
    [] OTHER -> NoReturn

\* the same for scanTable
ScanTableChecks(p, client) ==
  CASE p.tableName = Absent -> Refused(<<"tableName is required">>)
    [] EmptyValues(p) ->
         Refused(<<"ValidationException: ",
                   "ExpressionAttributeValues must not be empty">>)
    [] client = "null" ->
         Refused(<<"AWS DynamoDB client not initialized. ",
                   "Please provide AWS credentials.">>)
    [] OTHER -> NoReturn

TableChecks(fn, p, client) ==
  IF fn = "queryTable" THEN QueryTableChecks(p, client)
  ELSE ScanTableChecks(p, client)

TableUnchanged ==
  UNCHANGED <<ctor, trackerVars, storeVars, now, uuidCount, calls, env,
              hostPc, reqs, workload>>

\* the host starts in an environment with any of the AWS credentials set;
\* this variant of the host builds no tracker, so the tracker's variables
\* keep the values of a tracker that was given nothing
TableInit ==
  /\ env \in SUBSET AwsVars
  /\ Constructor(Absent, Absent, Absent)
  /\ EmptyStore
  /\ now = 0
  /\ uuidCount = 0
  /\ calls = [c \in Calls |-> IdleCall]
  /\ hostPc = "start"
  /\ reqs = [r \in ClientCalls |-> NoReq]
  /\ workload = << >>
  /\ dynamo = IdleTable(DynamoClient(env))

\* a tool handler calls queryTable(params) or scanTable(params)
TableCall(fn, p) ==
  /\ dynamo.pc \in {"idle", "returned"}
  /\ dynamo' = [dynamo EXCEPT !.fn = fn, !.pc = "called", !.params = p,
                              !.sent = FALSE, !.result = NoReturn]
  /\ TableUnchanged

\* the function runs up to its first return or to `await dynamoClient.send`
TableValidate ==
  /\ dynamo.pc = "called"
  /\ LET early == TableChecks(dynamo.fn, dynamo.params, dynamo.client)
     IN dynamo' = IF early # NoReturn
                  THEN [dynamo EXCEPT !.pc = "returned", !.result = early]
                  ELSE [dynamo EXCEPT !.pc = "sending"]
  /\ TableUnchanged

\* the request goes out; DynamoDB answers or the send throws into the catch
TableSend ==
  /\ dynamo.pc = "sending"
  /\ \E ok \in BOOLEAN :
       dynamo' = [dynamo EXCEPT
                    !.pc = "returned", !.sent = TRUE,
                    !.result = IF ok
                               THEN [success |-> TRUE,
                                     message |-> <<"executed successfully">>]
                               ELSE Refused(<<"Failed to ", dynamo.fn>>)]
  /\ TableUnchanged

TableNext ==
  \/ \E fn \in TableFns, p \in TableParams : TableCall(fn, p)
  \/ TableValidate
  \/ TableSend

TableSpec == TableInit /\ [][TableNext]_vars

\* --------------------------------------------------- a scripted caller
\* QuerySpec: one caller builds the tracker with credentials, calls
\* connect(), then records a fixed history call after call, each at its
\* minute, and ends, after any of them, with one query for similar actions
\* or for a suggestion.  The store is the caller's Neo4j instance, which other
\* programs write to as well.

\* an argument of recordAction against a DynamoDB backend
Recorded(userId, mcpId, actionType, actionName, parameters) ==
  [userId |-> userId, userName |-> userId, mcpId |-> mcpId,
   mcpType |-> "DynamoDB", mcpName |-> "AWS DynamoDB",
   actionType |-> actionType, actionName |-> actionName,
   parameters |-> parameters, result |-> <<"ok">>, status |-> "success",
   limit |-> <<>>,
   context |-> Absent]

RecordStep(at, arg) == [step |-> "record", at |-> at, arg |-> arg]

ConnectStep == [step |-> "connect", at |-> 0, arg |-> NoInput]

\* the query the caller ends with, at the latest at minute `at`
QueryStep(at) == [step |-> "query", at |-> at, arg |-> NoInput]

\* another program's Action for u1 on m1, its parameters text cut short
OtherStep(at) ==
  [step |-> "other", at |-> at,
   arg |-> [NoInput EXCEPT !.userId = "u1", !.mcpId = "m1",
                           !.actionType = "query",
                           !.actionName = "query_table",
                           !.status = "success"]]

\* A1, then an export 10 minutes later and an identical one 40 minutes later
ScenarioWorkload ==
  <<ConnectStep,
    RecordStep(0, Recorded("u1", "m1", "query", "query_table", <<"t1">>)),
    RecordStep(10, Recorded("u1", "m1", "export", "export_table", <<"t1">>)),
    RecordStep(40, Recorded("u1", "m1", "export", "export_table", <<"t1">>)),
    QueryStep(40)>>

\* successors 29 minutes, 30 minutes, an hour and a half, and a day and ten
\* minutes after their anchor
WindowWorkload ==
  <<ConnectStep,
    RecordStep(0, Recorded("u1", "m1", "query", "query_table", <<"t1">>)),
    RecordStep(29, Recorded("u1", "m1", "scan", "scan_table", <<"t1">>)),
    RecordStep(30, Recorded("u1", "m1", "put", "put_item", <<"t1">>)),
    RecordStep(90, Recorded("u1", "m1", "get", "get_item", <<"t1">>)),
    RecordStep(24 * 60 + 10,
               Recorded("u1", "m1", "delete", "delete_item", <<"t1">>)),
    QueryStep(24 * 60 + 10)>>

\* more than DefaultLimit queries like the probe, some scored alike, one
\* unlike it, one of another type and one on another kind of backend
SimilarWorkload ==
  <<ConnectStep,
    RecordStep(0, Recorded("u1", "m1", "query", "query_table", <<"t1">>)),
    RecordStep(1, Recorded("u1", "m1", "query", "query_table", <<"t1", "k">>)),
    RecordStep(2, Recorded("u1", "m1", "query", "query_table", <<"t2">>)),
    RecordStep(2, Recorded("u1", "m1", "query", "query_table", <<"t2">>)),
    RecordStep(3, Recorded("u1", "m1", "query", "query_table", <<"t1">>)),
    RecordStep(4, Recorded("u1", "m1", "query", "query_table",
                           <<"x", "y", "z">>)),
    RecordStep(5, Recorded("u1", "m1", "query", "query_table", <<"t1", "k">>)),
    RecordStep(6, Recorded("u1", "m1", "export", "export_table", <<"t1">>)),
    RecordStep(7, [Recorded("u1", "m2", "query", "query_table", <<"t1">>)
                     EXCEPT !.mcpType = "Cognito", !.mcpName = "AWS Cognito"]),
    QueryStep(7)>>

\* a text among the stored ones that JSON.parse rejects
MalformedWorkload ==
  <<ConnectStep,
    RecordStep(0, Recorded("u1", "m1", "query", "query_table", <<"t1">>)),
    OtherStep(1),
    RecordStep(2, Recorded("u1", "m1", "query", "query_table", <<"t2">>)),
    QueryStep(2)>>

\* another program creates the full-text index
IndexStep(at) == [step |-> "index", at |-> at, arg |-> NoInput]

\* two users and two backend nodes of one type: u1's anchor is followed by
\* u2's scan on the same node, by u1's put on the node m2 and by u1's get on
\* the same node; u2's anchor is followed by u2's delete
SharedWorkload ==
  <<ConnectStep,
    IndexStep(0),
    RecordStep(0, Recorded("u1", "m1", "query", "query_table", <<"t1">>)),
    RecordStep(1, Recorded("u2", "m1", "scan", "scan_table", <<"t1">>)),
    RecordStep(2, Recorded("u1", "m2", "put", "put_item", <<"t1">>)),
    RecordStep(3, Recorded("u1", "m1", "get", "get_item", <<"t1">>)),
    RecordStep(4, Recorded("u2", "m1", "query", "query_table", <<"t1">>)),
    RecordStep(5, Recorded("u2", "m1", "delete", "delete_item", <<"t1">>)),
    QueryStep(5)>>

\* one anchor followed by five kinds of action, one of them twice, which
\* with the anchor's own makes six kinds in the store
RankWorkload ==
  <<ConnectStep,
    IndexStep(0),
    RecordStep(0, Recorded("u1", "m1", "query", "query_table", <<"t1">>)),
    RecordStep(1, Recorded("u1", "m1", "scan", "scan_table", <<"t1">>)),
    RecordStep(2, Recorded("u1", "m1", "scan", "scan_table", <<"t2">>)),
    RecordStep(3, Recorded("u1", "m1", "put", "put_item", <<"t1">>)),
    RecordStep(4, Recorded("u1", "m1", "get", "get_item", <<"t1">>)),
    RecordStep(5, Recorded("u1", "m1", "delete", "delete_item", <<"t1">>)),
    RecordStep(6, Recorded("u1", "m1", "export", "export_table", <<"t1">>)),
    QueryStep(6)>>

\* nothing is recorded before the query
EmptyWorkload == <<ConnectStep, QueryStep(0)>>

Workloads ==
  {ScenarioWorkload, WindowWorkload, SimilarWorkload, MalformedWorkload,
   SharedWorkload, RankWorkload, EmptyWorkload}

\* the arguments the caller queries with: the limit left out, or 1, or 2
Probes ==
  {[NoInput EXCEPT !.userId = u, !.mcpType = "DynamoDB",
                   !.actionType = "query", !.parameters = <<"t1">>,
                   !.limit = l, !.context = "table"] :
     u \in {"u1", "u2"}, l \in {<< >>, <<1>>, <<2>>}}

QueryInit ==
  /\ Constructor("bolt://db", "neo4j", "secret")
  /\ env = {}
  /\ EmptyStore
  /\ now = 0
  /\ uuidCount = 0
  /\ calls = [c \in Calls |-> IdleCall]
  /\ hostPc = "start"
  /\ reqs = [r \in ClientCalls |-> NoReq]
  /\ workload \in Workloads
  /\ dynamo = IdleTable("client")

\* the caller makes its calls one after the other
CallerIdle == \A c \in Calls : calls[c].pc = "idle"

CallerConnect(c) ==
  /\ CallerIdle
  /\ workload # << >>
  /\ Head(workload).step = "connect"
  /\ Fresh(c)
  /\ ConnectBegin(c)
  /\ workload' = Tail(workload)
  /\ UNCHANGED <<ctor, storeVars, now, uuidCount, env, hostPc, reqs, dynamo>>

\* the caller waits for the minute of its next step
CallerWait ==
  /\ CallerIdle
  /\ workload # << >>
  /\ now < Head(workload).at
  /\ now' = Head(workload).at
  /\ UNCHANGED <<ctor, trackerVars, storeVars, uuidCount, calls, hostVars>>

CallerRecord(c) ==
  /\ CallerIdle
  /\ workload # << >>
  /\ Head(workload).step = "record"
  /\ now = Head(workload).at
  /\ Fresh(c)
  /\ RecordActionBegin(c, Head(workload).arg)
  /\ workload' = Tail(workload)
  /\ UNCHANGED <<ctor, storeVars, now, env, hostPc, reqs, dynamo>>

\* another program adds an Action for a user and a backend that exist
OtherWriter ==
  /\ CallerIdle
  /\ workload # << >>
  /\ Head(workload).step = "other"
  /\ now = Head(workload).at
  /\ workload' = Tail(workload)
  /\ LET arg == Head(workload).arg
         node == [id |-> 0, type |-> arg.actionType, name |-> arg.actionName,
                  parameters |-> <<"{", "t1">>,
                  result |-> JSONStringify(<<"ok">>),
                  status |-> arg.status, timestamp |-> now]
     IN IF arg.userId \in DOMAIN users /\ arg.mcpId \in DOMAIN mcps
        THEN /\ actions' = actions \cup {node}
             /\ performed' = performed \cup {<<arg.userId, node.id>>}
             /\ used' = used \cup {<<node.id, arg.mcpId>>}
        ELSE UNCHANGED <<actions, performed, used>>
  /\ UNCHANGED <<ctor, trackerVars, users, mcps, schema, writeLog, now,
                 uuidCount, calls, env, hostPc, reqs, dynamo>>

\* another program creates the index the recommendations read
OtherIndexer ==
  /\ CallerIdle
  /\ workload # << >>
  /\ Head(workload).step = "index"
  /\ now = Head(workload).at
  /\ workload' = Tail(workload)
  /\ schema' = schema \cup {ContextIndex}
  /\ UNCHANGED <<ctor, trackerVars, users, mcps, actions, performed, used,
                 writeLog, now, uuidCount, calls, env, hostPc, reqs, dynamo>>

CallerQuery(c) ==
  /\ CallerIdle
  /\ workload # << >>
  /\ Head(workload).step # "connect"
  /\ Fresh(c)
  /\ \E op \in {"findSimilarActions", "suggestNextAction",
                 "getActionRecommendations"}, in \in Probes :
       /\ op = "findSimilarActions" => in.userId = "u1"
       /\ op # "findSimilarActions" => in.limit = << >>
       /\ QueryBegin(c, op, in)
  /\ workload' = << >>
  /\ UNCHANGED <<ctor, storeVars, now, uuidCount, env, hostPc, reqs, dynamo>>

\* the caller has read what its call settled with
CallerForget(c) ==
  /\ calls[c].pc = "done"
  /\ calls' = [calls EXCEPT ![c] = IdleCall]
  /\ UNCHANGED <<ctor, trackerVars, storeVars, now, uuidCount, hostVars>>

QueryNext ==
  \/ \E c \in ClientCalls : CallerConnect(c)
  \/ CallerWait
  \/ \E c \in ClientCalls : CallerRecord(c)
  \/ OtherWriter
  \/ OtherIndexer
  \/ \E c \in ClientCalls : CallerQuery(c)
  \/ \E c \in ClientCalls : CallerForget(c)
  \/ \E c \in Calls : ConnectVerified(c)
  \/ \E c \in Calls : SchemaStatement(c)
  \/ \E c \in Calls : SchemaClose(c)
  \/ \E c \in Calls : StoreRun(c)
  \/ \E c \in Calls : Finish(c)

QuerySpec == QueryInit /\ [][QueryNext]_vars

\* ================================================================ claims
CtorMissing == \E i \in 1 .. 3 : ctor[i] = Absent

Started(c) == calls[c].pc # "idle"

Done(c) == calls[c].pc = "done"

ActionIds == {a.id : a \in actions}

\* the stored Action with id i
ActionOf(i) == CHOOSE a \in actions : a.id = i

\* C1: a tracker built with a missing uri, username or password never
\* accesses the store (the counter stays 0) and every call returns at once,
\* record and query calls with a "disabled" result.
C1_MissingCredentialsNoStoreAccess ==
  CtorMissing =>
    /\ storeAccess = 0
    /\ \A c \in Calls :
         Started(c) =>
           /\ Done(c)
           /\ ~calls[c].accessed
           /\ calls[c].op \in DbOps => calls[c].result.kind = "disabled"

\* C1 witness: built without all credentials; a recordAction and a query or
\* connect/close call have both been made
C1_Witness ==
  /\ CtorMissing
  /\ \E c, d \in ClientCalls :
       /\ calls[c].op = "recordAction" /\ Done(c)
       /\ calls[d].op \in QueryOps \cup {"connect", "close"} /\ Done(d)

\* C2: a Disabled tracker stays Disabled over every step, and a call made
\* while it is Disabled returns in the same step, without a store access,
\* record and query calls with a "disabled" result.
C2_DisabledIsFinal ==
  [][Disabled =>
       /\ Disabled'
       /\ \A c \in Calls :
            (calls[c].pc = "idle" /\ calls'[c].pc # "idle") =>
              /\ calls'[c].pc = "done"
              /\ ~calls'[c].accessed
              /\ storeAccess' = storeAccess
              /\ calls'[c].op \in DbOps => calls'[c].result.kind = "disabled"]_vars

\* C2 witness: built with credentials, disabled by a failed connect(), and
\* a record or query call made afterwards has returned "disabled"
C2_Witness ==
  /\ ~CtorMissing
  /\ Disabled
  /\ \E c, d \in ClientCalls :
       /\ calls[c].op = "connect" /\ Done(c) /\ calls[c].failed
       /\ calls[d].op \in DbOps /\ Done(d) /\ ~calls[d].invokedEnabled
       /\ calls[d].result.kind = "disabled"

\* C3 (as claimed): started without NEO4J_URI, NEO4J_USERNAME and
\* NEO4J_PASSWORD, the host's tracker is Disabled and the store is never
\* accessed, at startup or later.
C3_NoEnvironmentMeansDisabled ==
  (env \cap Neo4jVars = {}) =>
    /\ Disabled
    /\ storeAccess = 0
    /\ \A c \in Calls : ~calls[c].accessed

\* C4: when connect() fails (connectivity check, a schema statement or the
\* session close), it returns without raising, the tracker is Disabled and
\* the host does not exit: it is about to serve or serving.
C4_ConnectFailureIsNotFatal ==
  (calls[HostConnect].op = "connect" /\ Done(HostConnect)
     /\ calls[HostConnect].failed) =>
    /\ calls[HostConnect].result.kind = "returned"
    /\ Disabled
    /\ hostPc \in {"connecting", "serving"}

\* C4 witness: connect() failed and returned, the host is serving and has answered a
\* tracked tool call with its business result
C4_Witness ==
  /\ Done(HostConnect)
  /\ calls[HostConnect].failed
  /\ hostPc = "serving"
  /\ \E r \in ClientCalls :
       /\ reqs[r].pc = "responded"
       /\ reqs[r].tool \in DOMAIN TrackedTools
       /\ reqs[r].response = "ok"

\* C5: in every state of the store each Action has exactly one PERFORMED
\* edge, from an existing User, and exactly one USED edge, to an existing
\* Backend; no edge hangs off a missing Action.
C5_NoOrphanActions ==
  /\ \A a \in actions :
       /\ Cardinality({e \in performed : e[2] = a.id}) = 1
       /\ Cardinality({e \in used : e[1] = a.id}) = 1
  /\ \A e \in performed : e[1] \in DOMAIN users /\ e[2] \in ActionIds
  /\ \A e \in used : e[1] \in ActionIds /\ e[2] \in DOMAIN mcps

\* C5 witness: the store answers a query statement after a recordAction
\* statement was applied
C5_Witness ==
  /\ actions # {}
  /\ \E c, d \in ClientCalls :
       /\ calls[c].op \in QueryOps /\ calls[c].pc = "ran" /\ ~calls[c].failed
       /\ calls[d].op = "recordAction" /\ Done(d)
       /\ calls[d].result.kind = "recorded"

\* C6: no step changes the name or createdAt of a stored User, nor the type,
\* name or createdAt of a stored Backend.
C6_UpsertKeepsAttributes ==
  [][/\ \A u \in DOMAIN users : u \in DOMAIN users' /\ users'[u] = users[u]
     /\ \A m \in DOMAIN mcps : m \in DOMAIN mcps' /\ mcps'[m] = mcps[m]]_vars

\* C6 witness: a recordAction was written whose userName differs from the
\* stored name of its User and whose backend type differs from the stored
\* type of its Backend
C6_Witness ==
  \E c \in ClientCalls :
    /\ calls[c].op = "recordAction"
    /\ calls[c].actionId \in ActionIds
    /\ users[calls[c].arg.userId].name # calls[c].arg.userName
    /\ mcps[calls[c].arg.mcpId].type # calls[c].arg.mcpType

\* C7: no step removes a User, a Backend, an Action or an edge, and a stored
\* Action keeps all its field values.
C7_AppendOnly ==
  [][/\ actions \subseteq actions'
     /\ performed \subseteq performed'
     /\ used \subseteq used'
     /\ DOMAIN users \subseteq DOMAIN users'
     /\ DOMAIN mcps \subseteq DOMAIN mcps']_vars

\* C7 witness: two Actions of the same type and name are stored
C7_Witness ==
  \E a, b \in actions : a.id # b.id /\ a.type = b.type /\ a.name = b.name

\* the step in which the store settles the statement of recordAction call c
WriteSettles(c) ==
  /\ calls[c].op = "recordAction"
  /\ calls[c].pc = "running"
  /\ calls'[c].pc = "ran"

\* C8: a recordAction statement that succeeds adds exactly one Action, whose
\* id is that call's id, is new to the store and differs from every id that
\* another call holds or returned; a statement that fails, and any other
\* step, adds no Action.
C8_OneFreshActionPerWrite ==
  [][/\ \A c \in Calls :
          WriteSettles(c) =>
            IF calls'[c].failed
            THEN actions' = actions
            ELSE /\ Cardinality(actions') = Cardinality(actions) + 1
                 /\ \E a \in actions' \ actions :
                      /\ actions' = actions \cup {a}
                      /\ a.id = calls[c].actionId
                      /\ a.id \notin ActionIds
                      /\ \A d \in Calls \ {c} :
                           /\ calls[d].actionId # a.id
                           /\ calls[d].result.actionId # a.id
     /\ (\A c \in Calls : ~WriteSettles(c)) => actions' = actions]_vars

\* C8 witness: two calls with identical arguments, stamped with the same
\* clock reading, were both written
C8_Witness ==
  /\ Cardinality(actions) = 2
  /\ \E c, d \in ClientCalls :
       /\ c # d
       /\ calls[c].arg = calls[d].arg
       /\ calls[c].timestamp = calls[d].timestamp
       /\ calls[c].result.kind = "recorded"
       /\ calls[d].result.kind = "recorded"

\* C9 (as claimed): timestamps do not decrease along the order in which the
\* store wrote the Actions.
C9_TimestampsFollowWriteOrder ==
  \A i, j \in 1 .. Len(writeLog) :
    i < j => ActionOf(writeLog[i]).timestamp <= ActionOf(writeLog[j]).timestamp

\* C9 (amended): timestamps do not decrease along the order in which the
\* recordAction calls were made (uuidv4 values are numbered in that order):
\* of two stored Actions, the one whose call started later has the greater
\* or equal timestamp.
C9_TimestampsFollowCallOrder ==
  \A a, b \in actions : a.id < b.id => a.timestamp <= b.timestamp

\* C9 witness: two overlapping calls read different clock values and the
\* store wrote the later call's Action first
C9_Witness ==
  \E c, d \in ClientCalls :
    /\ calls[c].op = "recordAction" /\ calls[d].op = "recordAction"
    /\ calls[c].actionId < calls[d].actionId
    /\ calls[c].timestamp < calls[d].timestamp
    /\ writeLog = <<calls[d].actionId, calls[c].actionId>>

\* C10 (as claimed): the response to a tracked tool call does not wait for
\* the recordAction statement: while the statement is pending at the store
\* the response has already been returned.
C10_ResponseDoesNotWaitForWrite ==
  \A r \in ClientCalls :
    (calls[r].op = "recordAction" /\ calls[r].pc = "running")
      => reqs[r].pc = "responded"

\* C11: the response to a tracked tool call carries the business
\* operation's result and is not an error, whatever recordAction did
\* (recorded, disabled, a failure result, or a rejection).
C11_RecordingNeverReplacesResult ==
  \A r \in ClientCalls :
    (reqs[r].pc = "responded" /\ reqs[r].tool \in DOMAIN TrackedTools) =>
      /\ reqs[r].response = reqs[r].business
      /\ reqs[r].business \in {"ok", "err"}
      /\ ~reqs[r].isError

\* C11 witness: one tracked call was answered after recordAction returned a
\* failure result, another after recordAction rejected
C11_Witness ==
  \E r, q \in ClientCalls :
    /\ reqs[r].pc = "responded" /\ reqs[r].tool \in DOMAIN TrackedTools
    /\ calls[r].result.kind = "failed"
    /\ reqs[q].pc = "responded" /\ reqs[q].tool \in DOMAIN TrackedTools
    /\ calls[q].result.kind = "raised"

\* C12 (as claimed): a record or query method invoked on an Enabled tracker
\* never raises: after any store-side failure, the failure of its session
\* close included, it returns a {success: false} result.
C12_FailuresBecomeResults ==
  \A c \in Calls :
    (calls[c].op \in DbOps /\ Done(c) /\ calls[c].invokedEnabled) =>
      /\ calls[c].result.kind # "raised"
      /\ calls[c].session = "closeFailed" => calls[c].result.kind = "failed"

\* C14: a recordAction statement is settled once.  A rejected statement adds
\* no User, Backend, Action or edge and leaves the tracker as enabled as it
\* was; afterwards the call never runs a statement again, stays failed, and
\* its id never enters the store.
C14_FailedWriteIsDropped ==
  [][\A c \in Calls :
       calls[c].op = "recordAction" =>
         /\ (WriteSettles(c) /\ calls'[c].failed) =>
              /\ <<users, mcps, actions, performed, used>>'
                   = <<users, mcps, actions, performed, used>>
              /\ <<enabled, driver>>' = <<enabled, driver>>
         /\ calls[c].pc \in {"ran", "done"} =>
              /\ calls'[c].pc \in {"ran", "done"}
              /\ calls'[c].failed = calls[c].failed
              /\ calls[c].failed =>
                   /\ calls[c].actionId \notin {a.id : a \in actions'}
                   /\ calls'[c] # calls[c] =>
                        <<enabled, driver>>' = <<enabled, driver>>]_vars

\* C14 witness: a recordAction returned a failure result, the tracker is
\* still Enabled and another recordAction was written after it
C14_Witness ==
  /\ ~Disabled
  /\ \E c, d \in ClientCalls :
       /\ calls[c].op = "recordAction" /\ calls[c].result.kind = "failed"
       /\ calls[d].op = "recordAction" /\ calls[d].result.kind = "recorded"
       /\ calls[c].actionId < calls[d].actionId
       /\ ActionIds = {calls[d].actionId}
       /\ DOMAIN users = {calls[d].arg.userId}

\* C20 (as claimed): once close() has returned, the driver that the tracker
\* created is not open, and a close() made while Disabled accesses nothing.
C20_CloseReleasesDriver ==
  \A c \in Calls :
    (calls[c].op = "close" /\ Done(c)) =>
      /\ driverState # "open"
      /\ ~calls[c].invokedEnabled => ~calls[c].accessed

\* C13: every session that a record, query or schema operation opened has
\* had close() called on it by the time the operation completes, whether it
\* succeeded or failed; a session is open only while its operation is in
\* flight, so none is open when nothing is in flight; and no two operations
\* are given the same session.
C13_SessionsAreClosedAndPrivate ==
  /\ \A c \in Calls :
       /\ calls[c].session = "open" => c \in InFlight
       /\ (Done(c) /\ calls[c].accessed /\ calls[c].op \in DbOps) =>
            calls[c].session \in {"closed", "closeFailed"}
       /\ calls[c].session # "none" <=> calls[c].sessionId # 0
  /\ InFlight = {} => \A c \in Calls : calls[c].session # "open"
  /\ \A c, d \in Calls :
       (c # d /\ calls[c].sessionId # 0) =>
         calls[c].sessionId # calls[d].sessionId

\* C13 witness: nothing is in flight after a schema run, a recordAction
\* whose statement failed and a query that succeeded each had a session
C13_Witness ==
  /\ InFlight = {}
  /\ \E c, d, e \in Calls :
       /\ calls[c].op = "connect" /\ calls[c].session = "closed"
       /\ calls[d].op = "recordAction" /\ calls[d].failed
       /\ calls[d].session = "closed"
       /\ calls[e].op \in QueryOps /\ ~calls[e].failed
       /\ calls[e].session = "closed"

\* C19 (as claimed): after connect() has succeeded the store holds the
\* uniqueness constraints on User.id, Action.id and Backend (MCP) id and the
\* indexes on Action.timestamp and Action.type, and a further connect()
\* neither fails for what is already there nor adds anything else.
C19_SchemaAfterConnect ==
  \A c \in Calls :
    (calls[c].op = "connect" /\ Done(c) /\ calls[c].accessed
       /\ ~calls[c].failed /\ calls[c].session = "closed") =>
      schema = {[kind |-> "constraint", label |-> "User", property |-> "id"],
                [kind |-> "constraint", label |-> "Action", property |-> "id"],
                [kind |-> "constraint", label |-> "MCP", property |-> "id"],
                [kind |-> "index", label |-> "Action", property |-> "timestamp"],
                [kind |-> "index", label |-> "Action", property |-> "type"]}

\* the stored Actions of the asked type on a backend of the asked type
\* whose parameters text scores above 0.7 against the asked parameters
Matching(in) ==
  {a \in actions :
     /\ a.type = in.actionType
     /\ \E m \in DOMAIN mcps : <<a.id, m>> \in used /\ mcps[m].type = in.mcpType
     /\ LET score == JaroWinklerDistance(JSONStringify(in.parameters),
                                         a.parameters)
        IN 10 * score[1] > 7 * score[2]}

ScoreOf(in, a) == JaroWinklerDistance(JSONStringify(in.parameters), a.parameters)

\* a is ranked no later than b: higher score, or equal score and not older
RankedNoLater(sa, ta, sb, tb) ==
  \/ sa[1] * sb[2] > sb[1] * sa[2]
  \/ sa[1] * sb[2] = sb[1] * sa[2] /\ ta >= tb

\* C15: a findSimilarActions that succeeds returns min(limit, number of
\* matching Actions) records, limit being 5 when left out; they are distinct
\* matching Actions with their scores, every score is above 0.7, they come
\* by score descending and then timestamp descending, and no matching Action
\* left out ranks before one that is returned.
C15_SimilarActionsAreTheTopMatches ==
  \A c \in Calls :
    (calls[c].op = "findSimilarActions" /\ Done(c)
       /\ calls[c].result.kind = "found") =>
      LET in == calls[c].arg
          data == calls[c].result.data
          n == IF in.limit = << >> THEN 5 ELSE in.limit[1]
          ids == {data[i].action.id : i \in DOMAIN data}
      IN /\ Len(data) = Min(n, Cardinality(Matching(in)))
         /\ Cardinality(ids) = Len(data)
         /\ \A i \in DOMAIN data :
              /\ \E a \in Matching(in) :
                   /\ a.id = data[i].action.id
                   /\ a.timestamp = data[i].action.timestamp
                   /\ data[i].similarity = ScoreOf(in, a)
                   /\ data[i].action.parameters = JSONParse(a.parameters)
              /\ data[i].mcp.type = in.mcpType
              /\ 10 * data[i].similarity[1] > 7 * data[i].similarity[2]
              /\ \A j \in DOMAIN data :
                   i < j => RankedNoLater(data[i].similarity,
                                          data[i].action.timestamp,
                                          data[j].similarity,
                                          data[j].action.timestamp)
              /\ \A a \in Matching(in) :
                   a.id \notin ids =>
                     RankedNoLater(data[i].similarity,
                                   data[i].action.timestamp,
                                   ScoreOf(in, a), a.timestamp)

\* C15 witness: with the limit left out and more than five matching Actions
\* stored besides Actions that do not match, five came back, with two
\* different scores and two records of one score at different times
C15_Witness ==
  \E c \in Calls :
    /\ calls[c].op = "findSimilarActions" /\ Done(c)
    /\ calls[c].result.kind = "found"
    /\ calls[c].arg.limit = << >>
    /\ Cardinality(Matching(calls[c].arg)) > 5
    /\ \E a \in actions : a \notin Matching(calls[c].arg)
                          /\ a.type = calls[c].arg.actionType
    /\ Len(calls[c].result.data) = 5
    /\ LET data == calls[c].result.data
       IN /\ data[1].similarity = data[2].similarity
          /\ data[1].action.timestamp > data[2].action.timestamp
          /\ data[2].similarity # data[3].similarity

\* C16 (as claimed): when the statement of findSimilarActions succeeded, the
\* method returns success with one record for each record of the store's
\* answer whose parameters and result texts deserialize, the others skipped.
C16_MalformedRecordIsSkipped ==
  \A c \in Calls :
    (calls[c].op = "findSimilarActions" /\ Done(c) /\ calls[c].invokedEnabled
       /\ ~calls[c].failed /\ calls[c].session = "closed") =>
      /\ calls[c].result.kind = "found"
      /\ Len(calls[c].result.data) =
           Cardinality({i \in DOMAIN calls[c].rows :
                          /\ JSONParses(calls[c].rows[i].action.parameters)
                          /\ JSONParses(calls[c].rows[i].action.result)})

\* the pairs (anchor, successor) of the asked kind whose successor, by the
\* anchor's user on the anchor's backend, is later by less than 30 minutes
InWindow(in, type, name) ==
  {p \in Matching(in) \X actions :
     /\ p[2].type = type /\ p[2].name = name
     /\ \E u \in DOMAIN users :
          <<u, p[1].id>> \in performed /\ <<u, p[2].id>> \in performed
     /\ \E m \in DOMAIN mcps :
          /\ <<p[1].id, m>> \in used /\ <<p[2].id, m>> \in used
          /\ mcps[m].type = in.mcpType
     /\ p[2].timestamp > p[1].timestamp
     /\ p[2].timestamp - p[1].timestamp < 30}

\* C17 (as claimed): every group that suggestNextAction returns counts the
\* successors that are strictly later than their anchor by less than 30
\* minutes, and only those: none that is 30 minutes, hours or days later.
C17_WindowIsThirtyMinutes ==
  \A c \in Calls :
    (calls[c].op = "suggestNextAction" /\ Done(c)
       /\ calls[c].result.kind = "found") =>
      \A i \in DOMAIN calls[c].result.data :
        LET g == calls[c].result.data[i]
        IN g.frequency =
             Cardinality(InWindow(calls[c].arg, g.actionType, g.actionName))

\* the types and minutes of the stored Actions
History == {<<a.type, a.timestamp>> : a \in actions}

\* C18: with A1 (query at T) and A2 (export at T+10) recorded by u1 on one
\* backend, suggestNextAction for A1's backend type, type and parameters
\* returns the one group export with frequency 1, and it still does once
\* A3, an export like A2, is recorded at T+40.
C18_LateRepeatIsNotCounted ==
  \A c \in Calls :
    (/\ calls[c].op = "suggestNextAction" /\ Done(c)
     /\ calls[c].result.kind = "found"
     /\ History \in {{<<"query", 0>>, <<"export", 10>>},
                     {<<"query", 0>>, <<"export", 10>>, <<"export", 40>>}}) =>
      calls[c].result.data =
        <<[actionType |-> "export", actionName |-> "export_table",
           possibleParameters |-> {<<"t1">>}, frequency |-> 1]>>

\* C18 witness: A1, A2 and A3 are stored and the suggestion came back
C18_Witness ==
  \E c \in Calls :
    /\ calls[c].op = "suggestNextAction" /\ Done(c)
    /\ calls[c].result.kind = "found"
    /\ History = {<<"query", 0>>, <<"export", 10>>, <<"export", 40>>}
    /\ Cardinality(actions) = 3
    /\ Len(calls[c].result.data) = 1
    /\ calls[c].result.data[1].frequency = 1

\* the connect() calls whose schema bootstrap opened its session
BootstrapRuns == {c \in Calls : calls[c].op = "connect" /\ calls[c].sessionId # 0}

\* C21 (as claimed): no tool call is handled, and no tracker call of a
\* handler is made, before connect() has completed; and once the host
\* serves, the schema bootstrap has run exactly once.
C21_BootstrapExactlyOnce ==
  /\ \A r \in ClientCalls :
       (reqs[r].pc # "none" \/ Started(r)) => Done(HostConnect)
  /\ hostPc = "serving" => Cardinality(BootstrapRuns) = 1

\* C21 (amended): no tool call is handled, and no tracker call of a handler
\* is made, before connect() has completed; the schema bootstrap runs at
\* most once per process, only in runServer's connect(), and exactly once,
\* all its statements applied, when that connect() succeeded.
C21_BootstrapAtMostOnce ==
  /\ \A r \in ClientCalls :
       (reqs[r].pc # "none" \/ Started(r)) =>
         /\ Done(HostConnect)
         /\ hostPc = "serving"
         /\ calls[r].op # "connect"
  /\ BootstrapRuns \subseteq {HostConnect}
  /\ (Done(HostConnect) /\ calls[HostConnect].invokedEnabled
        /\ ~calls[HostConnect].failed) =>
       /\ BootstrapRuns = {HostConnect}
       /\ Cardinality(schema) = SchemaStatements
  /\ schema # {} => BootstrapRuns = {HostConnect}

\* C21 witness: the host serves after a connect() that ran the bootstrap, a
\* handler's tracker call is in flight
C21_Witness ==
  /\ hostPc = "serving"
  /\ BootstrapRuns = {HostConnect}
  /\ Cardinality(schema) = SchemaStatements
  /\ \E r \in ClientCalls : calls[r].pc = "running"

\* the tracked tool calls whose handler has reached recordAction
Recording ==
  {r \in ClientCalls : /\ reqs[r].tool \in DOMAIN TrackedTools
                       /\ reqs[r].pc \in {"recording", "responded"}}

\* C22: recordAction has been invoked once for each tracked tool call whose
\* result is available and for no other call: not while the tool runs, not
\* for a tracking tool, not for an unknown tool; and its status argument is
\* 'success' exactly when the tool's result has success = true.
C22_OneRecordPerTrackedCall ==
  /\ uuidCount = Cardinality(Recording)
  /\ \A r \in ClientCalls :
       /\ r \in Recording =>
            /\ calls[r].op = "recordAction"
            /\ reqs[r].business \in {"ok", "err"}
            /\ calls[r].arg.result = <<reqs[r].business>>
            /\ calls[r].arg.status = "success" <=> reqs[r].business = "ok"
            /\ calls[r].arg.status = "failure" <=> reqs[r].business = "err"
       /\ r \notin Recording => calls[r].op # "recordAction"

\* C22 witness: a failed tool call was recorded as a failure, and an unknown
\* tool was answered with no recordAction for it
C22_Witness ==
  \E r, q \in ClientCalls :
    /\ r \in Recording /\ reqs[r].pc = "responded"
    /\ reqs[r].business = "err" /\ calls[r].arg.status = "failure"
    /\ reqs[q].pc = "responded" /\ reqs[q].response = "Unknown tool"
    /\ calls[q].op = "none"
    /\ uuidCount = 1

\* C30 (as claimed): an actionId that recordAction returned with success =
\* true is the id of an Action in the store.
C30_ReturnedIdIsStored ==
  \A c \in Calls :
    (calls[c].op = "recordAction" /\ Done(c) /\ calls[c].result.success) =>
      calls[c].result.actionId \in ActionIds

\* C29 (as claimed): an Action that recordAction wrote for backend type T
\* has its USED edge to a Backend whose stored type is T.
C29_EdgeLeadsToBackendOfType ==
  \A c \in Calls :
    (calls[c].op = "recordAction" /\ calls[c].pc \in {"ran", "done"}
       /\ ~calls[c].failed /\ calls[c].invokedEnabled) =>
      \E m \in DOMAIN mcps :
        /\ <<calls[c].actionId, m>> \in used
        /\ mcps[m].type = calls[c].arg.mcpType

\* the message of a return contains the text
Says(ret, text) == \E i \in DOMAIN ret.message : ret.message[i] = text

\* C23 (as claimed): in every configuration, queryTable without
\* expressionAttributeValues answers success=false with 'expressionAttributeValues
\* is required', queryTable or scanTable with an empty expressionAttributeValues
\* answers success=false with 'ExpressionAttributeValues must not be empty',
\* and in both cases nothing was sent to DynamoDB. Stated for calls whose
\* other required parameters are given.
C23_ValuesRefusedInEveryConfiguration ==
  (/\ dynamo.pc = "returned"
   /\ dynamo.params.tableName # Absent
   /\ dynamo.fn = "queryTable" => dynamo.params.keyConditionExpression # Absent)
  =>
    /\ (dynamo.fn = "queryTable"
          /\ dynamo.params.expressionAttributeValues = << >>) =>
         /\ ~dynamo.result.success
         /\ Says(dynamo.result, "expressionAttributeValues is required")
         /\ ~dynamo.sent
    /\ EmptyValues(dynamo.params) =>
         /\ ~dynamo.result.success
         /\ Says(dynamo.result, "ExpressionAttributeValues must not be empty")
         /\ ~dynamo.sent

\* the pairs (anchor, follower) for the query `in`: the follower is of the
\* given kind, later than the anchor, performed by the anchor's User and
\* has its USED edge to the anchor's Backend node
Followed(in, type, name) ==
  {p \in Matching(in) \X actions :
     /\ p[2].type = type /\ p[2].name = name
     /\ p[2].timestamp > p[1].timestamp
     /\ \E u \in DOMAIN users :
          <<u, p[1].id>> \in performed /\ <<u, p[2].id>> \in performed
     /\ \E m \in DOMAIN mcps :
          <<p[1].id, m>> \in used /\ <<p[2].id, m>> \in used}

\* C24: every group that suggestNextAction returns is made of successors that
\* were performed by the same User as their anchor and that use the very same
\* Backend node as their anchor: the group has such a successor, every
\* parameter set it lists is one of such a successor, and it counts no more
\* than the pairs of an anchor and such a successor; an Action of another
\* user or on another node of the same type adds nothing.
C24_SuccessorsShareUserAndBackend ==
  \A c \in Calls :
    (calls[c].op = "suggestNextAction" /\ Done(c)
       /\ calls[c].result.kind = "found") =>
      \A i \in DOMAIN calls[c].result.data :
        LET g == calls[c].result.data[i]
            pairs == Followed(calls[c].arg, g.actionType, g.actionName)
        IN /\ pairs # {}
           /\ g.possibleParameters \subseteq
                {JSONParse(p[2].parameters) : p \in pairs}
           /\ g.frequency <= Cardinality(pairs)

\* C24 witness: with u2's scan on m1 and u1's put on m2 stored after u1's
\* anchor, the suggestion lists u1's get and u2's delete and nothing else
C24_Witness ==
  \E c \in Calls :
    /\ calls[c].op = "suggestNextAction" /\ Done(c)
    /\ calls[c].result.kind = "found"
    /\ Cardinality(actions) = 6
    /\ {"m1", "m2"} \subseteq DOMAIN mcps
    /\ {"u1", "u2"} \subseteq DOMAIN users
    /\ {calls[c].result.data[i].actionType : i \in DOMAIN calls[c].result.data}
         = {"get", "delete"}

\* C25 (as claimed): for every group that suggestNextAction returns,
\* frequency is the number of distinct successor Actions of that (type, name)
\* that passed the statement's filters, each counted once, and
\* possibleParameters is the set of their distinct parameter sets.
C25_FrequencyCountsEachSuccessorOnce ==
  \A c \in Calls :
    (calls[c].op = "suggestNextAction" /\ Done(c)
       /\ calls[c].result.kind = "found") =>
      \A i \in DOMAIN calls[c].result.data :
        LET g == calls[c].result.data[i]
            successors == {r[4] : r \in {q \in Successions(calls[c].arg) :
                                           /\ q[4].type = g.actionType
                                           /\ q[4].name = g.actionName}}
        IN /\ g.frequency = Cardinality(successors)
           /\ g.possibleParameters =
                {JSONParse(a.parameters) : a \in successors}

\* the sets of groups the statement of the call may have ranked
RankedGroups(call) ==
  IF call.op = "suggestNextAction"
  THEN {SuggestionGroups(call.arg)}
  ELSE {RecommendationGroups(call.arg, matched) :
          matched \in ContextMatches(call.arg.context)}

\* C26: suggestNextAction returns at most 3 groups and
\* getActionRecommendations at most 5, each group once, in non-increasing
\* order of frequency, and no group left out has a strictly higher frequency
\* than a group that is returned.
C26_TopGroupsByFrequency ==
  \A c \in Calls :
    (calls[c].op \in {"suggestNextAction", "getActionRecommendations"}
       /\ Done(c) /\ calls[c].result.kind = "found") =>
      LET data == calls[c].result.data
          rows == calls[c].rows
      IN /\ Len(data) <= (IF calls[c].op = "suggestNextAction" THEN 3 ELSE 5)
         /\ \A i, j \in DOMAIN data :
              i < j => data[i].frequency >= data[j].frequency
         /\ Len(rows) = Len(data)
         /\ \A i \in DOMAIN data : data[i].frequency = rows[i].frequency
         /\ \E all \in RankedGroups(calls[c]) :
              /\ \A i \in DOMAIN rows : rows[i] \in all
              /\ \A i, j \in DOMAIN rows : i # j => rows[i] # rows[j]
              /\ \A g \in all \ {rows[i] : i \in DOMAIN rows} :
                   \A i \in DOMAIN rows : g.frequency <= rows[i].frequency

\* C26 witness: five kinds of successor, one of them counted twice; three
\* groups came back and the one counted twice is the first
C26_Witness ==
  \E c \in Calls :
    /\ calls[c].op = "suggestNextAction" /\ Done(c)
    /\ calls[c].result.kind = "found"
    /\ Cardinality(SuggestionGroups(calls[c].arg)) = 5
    /\ Len(calls[c].result.data) = 3
    /\ calls[c].result.data[1].frequency = 2
    /\ calls[c].result.data[2].frequency = 1

\* the groups the statement of the call ranks, for each set of nodes the
\* index may yield (suggestNextAction reads no index)
GroupsFor(call) ==
  IF call.op = "suggestNextAction"
  THEN [matched \in {{}} |-> SuggestionGroups(call.arg)]
  ELSE [matched \in ContextMatches(call.arg.context) |->
          RecommendationGroups(call.arg, matched)]

\* C27: what suggestNextAction and getActionRecommendations return does not
\* depend on the userId argument: when the store evaluates the statement,
\* any other userId makes it accept the statement in the same cases and rank
\* the same groups, mined over the Actions of all users; and the records the
\* store answered with are returned as the same result.
C27_UserIdDoesNotMatter ==
  \A c \in Calls :
    (calls[c].op \in {"suggestNextAction", "getActionRecommendations"}
       /\ calls[c].pc \in {"running", "ran", "done"}
       /\ calls[c].invokedEnabled) =>
      \A u \in {"u1", "u2", "u3"} :
        LET other == [calls[c] EXCEPT !.arg.userId = u]
        IN /\ Rejects(other) = Rejects(calls[c])
           /\ calls[c].pc = "running" => GroupsFor(other) = GroupsFor(calls[c])
           /\ calls[c].pc # "running" => Outcome(other) = Outcome(calls[c])

\* C27 witness: a caller who gives the userId u2, for whom nothing is
\* stored, is suggested what u1 did
C27_Witness ==
  \E c \in Calls :
    /\ calls[c].op = "suggestNextAction" /\ Done(c)
    /\ calls[c].result.kind = "found"
    /\ calls[c].arg.userId = "u2"
    /\ DOMAIN users = {"u1"}
    /\ Len(calls[c].result.data) >= 1

\* the schema after a bootstrap that ran all of its statements and nothing
\* else
BootstrapSchema == {SchemaItem(k) : k \in 1 .. SchemaStatements}

\* C28 (as claimed): on a store whose schema is the bootstrap's and nothing
\* else, a getActionRecommendations whose context matches no stored Action
\* (none is stored) returns success with an empty list; it fails only when
\* the store could have answered and did not.
C28_NoMatchGivesEmptyList ==
  \A c \in Calls :
    (/\ calls[c].op = "getActionRecommendations" /\ Done(c)
     /\ calls[c].invokedEnabled /\ calls[c].session = "closed"
     /\ schema = BootstrapSchema /\ actions = {}) =>
      \/ calls[c].result.kind = "found" /\ calls[c].result.data = << >>
      \/ calls[c].result.kind = "failed" /\ ~Rejects(calls[c])

====
